---- MODULE Spec2Model ----
(***************************************************************************)
(* single_particle_laser.ipynb: motion of an electron in a plane laser     *)
(* field with a gaussian envelope.  The notebook is one top-to-bottom run  *)
(* of code cells; every cell is one action.                                *)
(*                                                                         *)
(* Numbers.  A float is modelled as an extended rational [n, d]:           *)
(*   d > 0   the finite value n/d in lowest terms,                         *)
(*   d = 0   n = 0 is NaN, n = 1 is +Inf, n = -1 is -Inf,                  *)
(*   d = -1  a name that is not bound yet.                                 *)
(* Arithmetic on finite values is exact (rounding is not modelled) and     *)
(* follows IEEE 754 on the special values (0/0 = NaN, 0*Inf = NaN, ...).   *)
(* The sign of zero is not modelled.                                       *)
(*                                                                         *)
(* Arrays.  A numpy array is an object on the heap; a name is bound to a   *)
(* reference, so "px = a" makes two names share one object.                *)
(***************************************************************************)
EXTENDS Integers, Sequences, FiniteSets, TLC

VARIABLES cfg, libm, pc, err, num, env, heap, fig

vars == <<cfg, libm, pc, err, num, env, heap, fig>>

----------------------------------------------------------------------------
(* Bounds of the model                                                      *)

MaxN == 4
MaxTau == 1
MaxA0 == 2
SqrtDen == 8

----------------------------------------------------------------------------
(* Extended rationals                                                       *)

RECURSIVE GCD(_, _)
GCD(m, k) == IF k = 0 THEN m ELSE GCD(k, m % k)

AbsInt(i) == IF i < 0 THEN -i ELSE i

SgnInt(i) == IF i < 0 THEN -1 ELSE IF i = 0 THEN 0 ELSE 1

NaN == [n |-> 0, d |-> 0]
PInf == [n |-> 1, d |-> 0]
NInf == [n |-> -1, d |-> 0]
Unbound == [n |-> 0, d |-> -1]

\* the finite value p/q, q # 0, in lowest terms
Rat(p, q) ==
    LET g == GCD(AbsInt(p), AbsInt(q))
        s == IF q < 0 THEN -1 ELSE 1
    IN  [n |-> s * (p \div g), d |-> s * (q \div g)]

FromInt(i) == [n |-> i, d |-> 1]
Zero == FromInt(0)
One == FromInt(1)
Two == FromInt(2)

IsFinite(v) == v.d > 0
IsNaN(v) == v = NaN
IsInf(v) == v.d = 0 /\ v.n # 0
Sgn(v) == SgnInt(v.n)
InfOf(s) == IF s < 0 THEN NInf ELSE PInf

Neg(v) == [n |-> -v.n, d |-> v.d]

Add(v, w) ==
    IF IsNaN(v) \/ IsNaN(w) THEN NaN
    ELSE IF IsInf(v) /\ IsInf(w) THEN (IF v = w THEN v ELSE NaN)
    ELSE IF IsInf(v) THEN v
    ELSE IF IsInf(w) THEN w
    ELSE LET g == GCD(v.d, w.d)
             l == (v.d \div g) * w.d
         IN  Rat(v.n * (l \div v.d) + w.n * (l \div w.d), l)

Sub(v, w) == Add(v, Neg(w))

Mul(v, w) ==
    IF IsNaN(v) \/ IsNaN(w) THEN NaN
    ELSE IF IsInf(v) \/ IsInf(w)
         THEN (IF Sgn(v) * Sgn(w) = 0 THEN NaN ELSE InfOf(Sgn(v) * Sgn(w)))
    ELSE LET g1 == GCD(AbsInt(v.n), w.d)
             g2 == GCD(AbsInt(w.n), v.d)
         IN  Rat((v.n \div g1) * (w.n \div g2), (v.d \div g2) * (w.d \div g1))

\* numpy true division: a zero divisor gives NaN or Inf, never an exception
Div(v, w) ==
    IF IsNaN(v) \/ IsNaN(w) THEN NaN
    ELSE IF IsInf(v) THEN (IF IsInf(w) THEN NaN
                           ELSE InfOf(Sgn(v) * (IF Sgn(w) < 0 THEN -1 ELSE 1)))
    ELSE IF IsInf(w) THEN Zero
    ELSE IF w.n = 0 THEN (IF v.n = 0 THEN NaN ELSE InfOf(Sgn(v)))
    ELSE Mul(v, Rat(w.d, w.n))

\* v ** 2
Sqr(v) == Mul(v, v)

\* IEEE comparisons: every comparison with NaN is false
Lt(v, w) ==
    IF IsNaN(v) \/ IsNaN(w) THEN FALSE
    ELSE IF IsInf(v) \/ IsInf(w)
         THEN (IF IsInf(v) /\ IsInf(w) THEN v.n < w.n
               ELSE IF IsInf(v) THEN v.n < 0 ELSE w.n > 0)
    ELSE v.n * w.d < w.n * v.d

Le(v, w) == ~IsNaN(v) /\ ~IsNaN(w) /\ (v = w \/ Lt(v, w))

Abs(v) == IF v.n < 0 THEN Neg(v) ELSE v

\* integer square root, by bisection on lo..hi with lo*lo <= x < (hi+1)*(hi+1)
RECURSIVE ISqrtIn(_, _, _)
ISqrtIn(x, lo, hi) ==
    IF lo = hi THEN lo
    ELSE LET mid == (lo + hi + 1) \div 2
         IN  IF mid * mid <= x THEN ISqrtIn(x, mid, hi) ELSE ISqrtIn(x, lo, mid - 1)

ISqrt(x) == ISqrtIn(x, 0, IF x < 46340 THEN x ELSE 46340)

IsSquare(x) == ISqrt(x) * ISqrt(x) = x

\* np.sqrt: NaN below zero; exact on squares of rationals, otherwise the
\* root rounded down to a multiple of 1/SqrtDen
Sqrt(v) ==
    IF IsNaN(v) \/ v.n < 0 THEN NaN
    ELSE IF IsInf(v) THEN PInf
    ELSE IF IsSquare(v.n) /\ IsSquare(v.d) THEN Rat(ISqrt(v.n), ISqrt(v.d))
    ELSE Rat(ISqrt((v.n * SqrtDen * SqrtDen) \div v.d), SqrtDen)

----------------------------------------------------------------------------
(* numpy arrays: sequences of numbers, operations elementwise               *)

ArrNeg(A) == [i \in 1..Len(A) |-> Neg(A[i])]

ArrSqr(A) == [i \in 1..Len(A) |-> Sqr(A[i])]

ArrSqrt(A) == [i \in 1..Len(A) |-> Sqrt(A[i])]

ArrAdd(A, B) == [i \in 1..Len(A) |-> Add(A[i], B[i])]

ArrSub(A, B) == [i \in 1..Len(A) |-> Sub(A[i], B[i])]

ArrMul(A, B) == [i \in 1..Len(A) |-> Mul(A[i], B[i])]

\* array (op) scalar and scalar (op) array, the scalar broadcast
ArrSubS(A, s) == [i \in 1..Len(A) |-> Sub(A[i], s)]

ArrMulS(A, s) == [i \in 1..Len(A) |-> Mul(A[i], s)]

ArrDivS(A, s) == [i \in 1..Len(A) |-> Div(A[i], s)]

SAddArr(s, A) == [i \in 1..Len(A) |-> Add(s, A[i])]

SMulArr(s, A) == [i \in 1..Len(A) |-> Mul(s, A[i])]

\* linspace as with endpoint=False: the step divides by num, not num - 1
linspace_noEndpoint(start, stop, count) ==
    LET step == Div(Sub(stop, start), FromInt(count))
    IN  [i \in 1..count |-> Add(Mul(FromInt(i - 1), step), start)]

\* np.linspace(start, stop, num), endpoint included, num >= 1
linspace(start, stop, count) ==
    LET step == Div(Sub(stop, start), FromInt(count - 1))
    IN  [i \in 1..count |->
            IF count = 1 THEN start
            ELSE IF i = count THEN stop
            ELSE Add(Mul(FromInt(i - 1), step), start)]

RECURSIVE cumsum(_)
cumsum(A) ==
    IF Len(A) = 0 THEN <<>>
    ELSE LET head == cumsum(SubSeq(A, 1, Len(A) - 1))
         IN  IF Len(A) = 1 THEN <<A[1]>>
             ELSE Append(head, Add(head[Len(head)], A[Len(A)]))

\* cumtrapz as with initial=None: nothing is put in front of the sums
cumtrapz_noInitial(y, initial) ==
    cumsum([i \in 1..(Len(y) - 1) |-> Div(Mul(One, Add(y[i + 1], y[i])), Two)])

\* scipy.integrate.cumtrapz(y, initial=initial) with the default dx = 1.0:
\* cumsum(d * (y[1:] + y[:-1]) / 2.0) with the initial value put in front
cumtrapz(y, initial) ==
    LET d == One
        mids == [i \in 1..(Len(y) - 1) |-> Div(Mul(d, Add(y[i + 1], y[i])), Two)]
    IN  <<initial>> \o cumsum(mids)

----------------------------------------------------------------------------
(* The numeric library's transcendental functions.  Their values at the    *)
(* arguments of this run are not computable over the rationals; libm holds *)
(* one table per function, fixed before the run and constrained only by    *)
(* what the library guarantees (range, parity, monotonicity, exact values  *)
(* at 0 and on non-finite arguments).                                      *)

Half == Rat(1, 2)
Quarter == Rat(1, 4)
Eighth == Rat(1, 8)

\* numpy.pi, to the precision of the model
pi == Rat(22, 7)

SinVals == {Neg(Half), One}
CosVals == {Neg(One), Half}
ExpVals == {Quarter, Half}
ErfVals == {Half, One}

Range(A) == {A[i] : i \in DOMAIN A}

FinPos(S) == {v \in S : IsFinite(v) /\ v.n > 0}

NonDecreasing(f) == \A v, w \in DOMAIN f : Lt(v, w) => Le(f[v], f[w])

\* the grid and the function arguments a run with configuration c evaluates
GridOf(c) == linspace(Mul(FromInt(4), c.tau), Mul(FromInt(-4), c.tau), c.Nint)

SinArgs(c) == FinPos({Abs(v) : v \in Range(GridOf(c))}
                  \cup {Abs(Mul(Two, v)) : v \in Range(GridOf(c))})

CosArgs(c) == FinPos({Abs(v) : v \in Range(GridOf(c))})

ExpArgs(c) == FinPos({Div(Sqr(v), Sqr(c.tau)) : v \in Range(GridOf(c))})

ErfArgs(c) == FinPos({Abs(Div(Mul(Sqrt(Two), v), c.tau)) : v \in Range(GridOf(c))})

\* np.sin: odd, sin(0) = 0, NaN on NaN and on +-Inf
sin(v) ==
    IF ~IsFinite(v) THEN NaN
    ELSE IF v.n = 0 THEN Zero
    ELSE IF v.n < 0 THEN Neg(libm.sin[Neg(v)])
    ELSE libm.sin[v]

\* np.cos: even, cos(0) = 1, NaN on NaN and on +-Inf
cos(v) ==
    IF ~IsFinite(v) THEN NaN
    ELSE IF v.n = 0 THEN One
    ELSE libm.cos[Abs(v)]

\* np.exp: exp(0) = 1, exp(-Inf) = 0, exp(+Inf) = +Inf, 0 < exp(v) < 1 below 0
exp(v) ==
    IF IsNaN(v) THEN NaN
    ELSE IF IsInf(v) THEN (IF v.n < 0 THEN Zero ELSE PInf)
    ELSE IF v.n = 0 THEN One
    ELSE IF v.n < 0 THEN libm.exp[Neg(v)]
    ELSE Div(One, libm.exp[v])

\* scipy.special.erf: odd, non-decreasing, erf(0) = 0, erf(+-Inf) = +-1
erf(v) ==
    IF IsNaN(v) THEN NaN
    ELSE IF IsInf(v) THEN FromInt(v.n)
    ELSE IF v.n = 0 THEN Zero
    ELSE IF v.n < 0 THEN Neg(libm.erf[Neg(v)])
    ELSE libm.erf[v]

ArrSin(A) == [i \in 1..Len(A) |-> sin(A[i])]

ArrCos(A) == [i \in 1..Len(A) |-> cos(A[i])]

ArrExp(A) == [i \in 1..Len(A) |-> exp(A[i])]

ArrErf(A) == [i \in 1..Len(A) |-> erf(A[i])]

\* libm.exp[t] is exp(-t) for t > 0, so it does not increase with t
LibmOf(c) ==
    { [sin |-> s, cos |-> k, exp |-> e, erf |-> f] :
        s \in [SinArgs(c) -> SinVals],
        k \in [CosArgs(c) -> CosVals],
        e \in {g \in [ExpArgs(c) -> ExpVals] : NonDecreasing([t \in DOMAIN g |-> Neg(g[t])])},
        f \in {g \in [ErfArgs(c) -> ErfVals] : NonDecreasing(g)} }

----------------------------------------------------------------------------
(* State                                                                    *)
(*   cfg   the literals written in the parameter and grid cells             *)
(*   libm  the library's function tables for this run                       *)
(*   pc    the cell that runs next; "done" after the last, "error" after an *)
(*         uncaught exception stopped the run                               *)
(*   err   the exception that stopped the run, "" for none                  *)
(*   num   the scalar names of the notebook                                 *)
(*   env   the array names of the notebook: a heap reference, 0 for unbound *)
(*   heap  the array objects, indexed by reference                          *)
(*   fig   the curves handed to the plotting library, axis by axis          *)

A0Vals == {FromInt(i) : i \in -1..MaxA0}
TauVals == {FromInt(i) : i \in -1..MaxTau}
NVals == 1..MaxN

ArrayNames == {"xi", "a_", "a", "px", "pz", "gamma", "x", "z", "xan", "zdrift", "zan"}

Deref(r) == IF r = 0 THEN <<>> ELSE heap[r]

a_0 == num.a_0
tau == num.tau
Nint == num.Nint.n
dxi == num.dxi
xi0 == num.xi0
xi == Deref(env.xi)
a_ == Deref(env.a_)
a == Deref(env.a)
px == Deref(env.px)
pz == Deref(env.pz)
gamma == Deref(env.gamma)
x == Deref(env.x)
z == Deref(env.z)
xan == Deref(env.xan)
zdrift == Deref(env.zdrift)
zan == Deref(env.zan)

\* 0-based subscript k of A is in range (otherwise numpy raises IndexError)
InBounds(A, k) == 0 <= k /\ k < Len(A)

\* A[k], 0-based
At(A, k) == A[k + 1]

Init ==
    /\ cfg \in [a_0 : A0Vals, tau : TauVals, Nint : NVals]
    /\ libm \in LibmOf(cfg)
    /\ pc = "params"
    /\ err = ""
    /\ num = [a_0 |-> Unbound, tau |-> Unbound, Nint |-> Unbound,
              dxi |-> Unbound, xi0 |-> Unbound]
    /\ env = [nm \in ArrayNames |-> 0]
    /\ heap = <<>>
    /\ fig = <<>>

\* cell 6a9e2a49: laser parameters
Params ==
    /\ pc = "params"
    /\ num' = [num EXCEPT !.a_0 = cfg.a_0, !.tau = cfg.tau]
    /\ pc' = "grid"
    /\ UNCHANGED <<cfg, libm, err, env, heap, fig>>

\* cell 098043b5: set up xi space.  xi is bound before the subscripts of
\* the dxi line are evaluated; an IndexError there stops the run.
Grid ==
    /\ pc = "grid"
    /\ LET grid == linspace(Mul(FromInt(4), tau), Mul(FromInt(-4), tau), cfg.Nint)
       IN  /\ heap' = Append(heap, grid)
           /\ env' = [env EXCEPT !.xi = Len(heap) + 1]
           /\ IF InBounds(grid, 2) /\ InBounds(grid, 1)
              THEN /\ num' = [num EXCEPT !.Nint = FromInt(cfg.Nint),
                                         !.dxi = Sub(At(grid, 2), At(grid, 1)),
                                         !.xi0 = Zero]
                   /\ pc' = "pulse"
                   /\ err' = err
              ELSE /\ num' = [num EXCEPT !.Nint = FromInt(cfg.Nint)]
                   /\ pc' = "error"
                   /\ err' = "IndexError"
    /\ UNCHANGED <<cfg, libm, fig>>

\* the envelope with the amplitude factor left out
Envelope_noAmplitude(grid) ==
    ArrExp(ArrDivS(ArrNeg(ArrSqr(ArrSubS(grid, xi0))), Sqr(tau)))

\* a_0*np.exp(-(xi - xi0)**2/tau**2)
Envelope(grid) ==
    SMulArr(a_0,
            ArrExp(ArrDivS(ArrNeg(ArrSqr(ArrSubS(grid, xi0))), Sqr(tau))))

\* cell be0040b1: define pulse
Pulse ==
    /\ pc = "pulse"
    /\ LET env_ == Envelope(xi)
           wave == ArrMul(env_, ArrSin(xi))
       IN  /\ heap' = heap \o <<env_, wave>>
           /\ env' = [env EXCEPT !.a_ = Len(heap) + 1, !.a = Len(heap) + 2]
    /\ pc' = "momenta"
    /\ UNCHANGED <<cfg, libm, err, num, fig>>

\* px**2, the factor 0.5 left out
Pz_noHalf(pxv) == ArrSqr(pxv)

\* 0.5*px**2
Pz(pxv) == SMulArr(Half, ArrSqr(pxv))

\* np.sqrt(px**2 + pz**2), the rest-mass term left out
Gamma_noRestMass(pxv, pzv) ==
    ArrSqrt(ArrAdd(ArrSqr(pxv), ArrSqr(pzv)))

\* np.sqrt(1 + px**2 + pz**2)
Gamma(pxv, pzv) ==
    ArrSqrt(ArrAdd(SAddArr(One, ArrSqr(pxv)), ArrSqr(pzv)))

\* cell ce45293c: momenta in laser field.  "px = a" binds px to the object
\* a is bound to; pz and gamma are new arrays.
Momenta ==
    /\ pc = "momenta"
    /\ heap' = heap \o <<Pz(a), Gamma(a, Pz(a))>>
    /\ env' = [env EXCEPT !.px = env.a, !.pz = Len(heap) + 1,
                          !.gamma = Len(heap) + 2]
    /\ pc' = "numeric"
    /\ UNCHANGED <<cfg, libm, err, num, fig>>

\* nt.cumtrapz(p, initial=0.)*dxi, the negation left out
Integrate_noNegation(p) == ArrMulS(cumtrapz(p, Zero), dxi)

\* -nt.cumtrapz(p, initial=0.)*dxi
Integrate(p) == ArrMulS(ArrNeg(cumtrapz(p, Zero)), dxi)

\* cell 99ca4e8d: numerical solutions for x and z
Numeric ==
    /\ pc = "numeric"
    /\ heap' = heap \o <<Integrate(px), Integrate(pz)>>
    /\ env' = [env EXCEPT !.x = Len(heap) + 1, !.z = Len(heap) + 2]
    /\ pc' = "analytic"
    /\ UNCHANGED <<cfg, libm, err, num, fig>>

\* the drift with the leading minus sign left out
Drift_signFlipped(grid) ==
    LET coef == Mul(Mul(Mul(Eighth, Sqrt(Div(pi, Two))), Sqr(a_0)), tau)
        arg == ArrDivS(SMulArr(Sqrt(Two), ArrSubS(grid, xi0)), tau)
    IN  SMulArr(coef, ArrSubS(ArrErf(arg), One))

\* -0.125*np.sqrt(pi/2)*a_0**2*tau*(erf(np.sqrt(2)*(xi - xi0)/tau) - 1.)
Drift(grid) ==
    LET coef == Mul(Mul(Mul(Neg(Eighth), Sqrt(Div(pi, Two))), Sqr(a_0)), tau)
        arg == ArrDivS(SMulArr(Sqrt(Two), ArrSubS(grid, xi0)), tau)
    IN  SMulArr(coef, ArrSubS(ArrErf(arg), One))

\* cell 51143cc4: analytic solutions for x and z, and zdrift
Analytic ==
    /\ pc = "analytic"
    /\ LET xanv == ArrMul(a_, ArrCos(xi))
           zdr == Drift(xi)
           zanv == ArrAdd(zdr,
                          ArrMul(SMulArr(Eighth, ArrSqr(a_)),
                                 ArrSin(SMulArr(Two, xi))))
       IN  /\ heap' = heap \o <<xanv, zdr, zanv>>
           /\ env' = [env EXCEPT !.xan = Len(heap) + 1, !.zdrift = Len(heap) + 2,
                                 !.zan = Len(heap) + 3]
    /\ pc' = "plot"
    /\ UNCHANGED <<cfg, libm, err, num, fig>>

\* one ax.plot(xs, ys) curve: the library copies the data it is handed
Curve(xs, ys) == [xdata |-> xs, ydata |-> ys]

\* the plotting cell with the drift subtracted in place (z -= zdrift)
Plot_inPlace ==
    /\ pc = "plot"
    /\ heap' = [heap EXCEPT ![env.z] = ArrSub(z, zdrift)]
    /\ fig' = [ax1 |-> <<Curve(xi, x), Curve(xi, xan)>>,
               ax1yy |-> <<Curve(xi, zdrift), Curve(xi, z), Curve(xi, zan)>>,
               ax2 |-> <<Curve(heap'[env.z], x),
                         Curve(ArrSub(zan, zdrift), xan)>>,
               ax3 |-> <<Curve(xi, px)>>,
               ax3yy |-> <<Curve(xi, pz)>>,
               ax4 |-> <<Curve(pz, px)>>]
    /\ pc' = "done"
    /\ UNCHANGED <<cfg, libm, err, num, env>>

\* cell 4e28b53c: plot all quantities.  The differences z-zdrift and
\* zan-zdrift are temporaries; no name is rebound and no array is written.
Plot ==
    /\ pc = "plot"
    /\ fig' = [ax1 |-> <<Curve(xi, x), Curve(xi, xan)>>,
               ax1yy |-> <<Curve(xi, zdrift), Curve(xi, z), Curve(xi, zan)>>,
               ax2 |-> <<Curve(ArrSub(z, zdrift), x),
                         Curve(ArrSub(zan, zdrift), xan)>>,
               ax3 |-> <<Curve(xi, px)>>,
               ax3yy |-> <<Curve(xi, pz)>>,
               ax4 |-> <<Curve(pz, px)>>]
    /\ pc' = "done"
    /\ UNCHANGED <<cfg, libm, err, num, env, heap>>

Next ==
    \/ Params
    \/ Grid
    \/ Pulse
    \/ Momenta
    \/ Numeric
    \/ Analytic
    \/ Plot

Spec == Init /\ [][Next]_vars

----------------------------------------------------------------------------
(* Properties                                                               *)

Rank == [params |-> 1, grid |-> 2, pulse |-> 3, momenta |-> 4, numeric |-> 5,
         analytic |-> 6, plot |-> 7, done |-> 8, error |-> 0]

\* the cell named c has run to its end
Ran(c) == Rank[pc] > Rank[c]

Idx(A) == 1..Len(A)

\* sum over k in 1..m of (p[k] + p[k+1]) / 2
RECURSIVE TrapSum(_, _)
TrapSum(p, m) ==
    IF m = 0 THEN Zero
    ELSE Add(TrapSum(p, m - 1), Mul(Half, Add(p[m], p[m + 1])))

\* t is the cumulative trapezoidal integral of -p scaled by dxi, seeded at 0
IsCumTrapOf(t, p) ==
    /\ Len(p) = Nint
    /\ Len(t) = Nint
    /\ t[1] = Zero
    /\ \A i \in 1..(Nint - 1) :
          t[i + 1] = Sub(t[i], Mul(Mul(Half, Add(p[i], p[i + 1])), dxi))

\* C1: once the integration cell has run, x and z have length N, start at
\* 0, and each next element is the previous one minus
\* 0.5*(p[i] + p[i+1])*dxi, for p = px and p = pz respectively.
C1_CumulativeTrapezoid ==
    Ran("numeric") => IsCumTrapOf(x, px) /\ IsCumTrapOf(z, pz)

C1_Witness ==
    /\ Ran("numeric")
    /\ \E i \in Idx(x) : IsFinite(x[i]) /\ x[i].n # 0
    /\ Lt(Zero, z[Len(z)])

\* C2 (as claimed): with a positive sample count and tau # 0 the run never
\* stops on an error in the grid and field cells.
C2_NoErrorForPositiveN ==
    (cfg.Nint >= 1 /\ cfg.tau # Zero) => pc # "error"

\* the grid and field cells do run through from three samples on
C2_NoErrorFromThree ==
    cfg.Nint >= 3 => pc # "error" /\ err = ""

\* C3 (as claimed): for tau > 0, zdrift does not increase along the grid,
\* zdrift[j] <= zdrift[i] for i < j.
C3_DriftNonIncreasing ==
    (Ran("analytic") /\ Lt(Zero, tau)) =>
        \A i, j \in Idx(zdrift) : i < j => Le(zdrift[j], zdrift[i])

\* C3 (amended): for tau > 0 the grid descends and zdrift does not decrease
\* along it: for i < j, xi[j] < xi[i] and zdrift[i] <= zdrift[j].
C3_DriftNonDecreasing ==
    (Ran("analytic") /\ Lt(Zero, tau)) =>
        \A i, j \in Idx(zdrift) :
            i < j => Lt(xi[j], xi[i]) /\ Le(zdrift[i], zdrift[j])

C3_Witness ==
    /\ Ran("analytic")
    /\ Lt(Zero, tau)
    /\ a_0 # Zero
    /\ Lt(zdrift[1], zdrift[2])
    /\ Lt(zdrift[2], zdrift[Len(zdrift)])

AllNonFinite(A) == Len(A) = Nint /\ \A i \in Idx(A) : ~IsFinite(A[i])

SomeNonFinite(A) == Len(A) = Nint /\ \E i \in Idx(A) : ~IsFinite(A[i])

\* the non-finite envelope reaches every array derived from it; x and z
\* keep their finite seed at index 0
NonFinitePropagated ==
    /\ Ran("pulse") => AllNonFinite(a_) /\ AllNonFinite(a)
    /\ Ran("momenta") => AllNonFinite(px) /\ AllNonFinite(pz) /\ AllNonFinite(gamma)
    /\ Ran("numeric") => SomeNonFinite(x) /\ SomeNonFinite(z)
    /\ Ran("analytic") => AllNonFinite(xan) /\ AllNonFinite(zan)

\* C4 (as claimed): with tau = 0 the run never stops on an error, the
\* envelope is non-finite, and the non-finite value reaches a, px, pz,
\* gamma, x, z, xan and zan.
C4_TauZeroNeverAborts ==
    cfg.tau = Zero => pc # "error" /\ NonFinitePropagated

\* from three samples on the run with tau = 0 does go through
C4_TauZeroFromThree ==
    (cfg.tau = Zero /\ cfg.Nint >= 3) =>
        pc # "error" /\ err = "" /\ NonFinitePropagated

AllEqual(A, v) == Len(A) = Nint /\ \A i \in Idx(A) : A[i] = v

\* C5: with a0 = 0, tau > 0 and N >= 3, every element of a_, a, px, pz,
\* xan, zan, x and z is 0 and every element of gamma is 1.
C5_ZeroAmplitude ==
    (cfg.a_0 = Zero /\ Lt(Zero, cfg.tau) /\ cfg.Nint >= 3) =>
        /\ Ran("pulse") => AllEqual(a_, Zero) /\ AllEqual(a, Zero)
        /\ Ran("momenta") =>
              AllEqual(px, Zero) /\ AllEqual(pz, Zero) /\ AllEqual(gamma, One)
        /\ Ran("numeric") => AllEqual(x, Zero) /\ AllEqual(z, Zero)
        /\ Ran("analytic") => AllEqual(xan, Zero) /\ AllEqual(zan, Zero)

C5_Witness ==
    /\ pc = "done"
    /\ a_0 = Zero
    /\ Lt(Zero, tau)
    /\ Nint >= 3
    /\ AllEqual(zan, Zero)
    /\ \E i \in Idx(xi) : sin(xi[i]) # Zero

C7_LorentzFactor ==
    Ran("momenta") =>
        /\ Len(gamma) = Nint
        /\ \A i \in 1..Nint :
              (IsFinite(px[i]) /\ IsFinite(pz[i])) =>
                  /\ IsFinite(gamma[i])
                  /\ Le(Zero, gamma[i])
                  /\ Mul(gamma[i], gamma[i])
                        = Add(Add(One, Mul(px[i], px[i])), Mul(pz[i], pz[i]))
                  /\ Le(One, gamma[i])

C7_Witness ==
    /\ Ran("momenta")
    /\ \E i \in Idx(gamma) : IsFinite(px[i]) /\ Lt(One, gamma[i])

\* the value of each derived array at index i, from xi[i] alone
EnvelopeAt(v) == Mul(a_0, exp(Div(Neg(Mul(Sub(v, xi0), Sub(v, xi0))), Mul(tau, tau))))
WaveAt(v) == Mul(EnvelopeAt(v), sin(v))
PzAt(v) == Mul(Half, Mul(WaveAt(v), WaveAt(v)))
GammaAt(v) == Sqrt(Add(Add(One, Mul(WaveAt(v), WaveAt(v))), Mul(PzAt(v), PzAt(v))))
XanAt(v) == Mul(EnvelopeAt(v), cos(v))
DriftAt(v) ==
    Mul(Mul(Mul(Mul(Neg(Eighth), Sqrt(Div(pi, Two))), Mul(a_0, a_0)), tau),
        Sub(erf(Div(Mul(Sqrt(Two), Sub(v, xi0)), tau)), One))
ZanAt(v) ==
    Add(DriftAt(v),
        Mul(Mul(Eighth, Mul(EnvelopeAt(v), EnvelopeAt(v))), sin(Mul(Two, v))))

\* C8: after the whole run with N >= 3 every array has N elements, xi[i]
\* is the i-th of N evenly spaced samples from 4*tau to -4*tau, index i of
\* each pointwise array is its formula at xi[i], and x[i], z[i] are the
\* trapezoid sums over samples 0..i (so x and z are not shortened to N-1).
C8_LengthAndAlignment ==
    (pc = "done" /\ Nint >= 3) =>
        /\ \A nm \in ArrayNames : Len(Deref(env[nm])) = Nint
        /\ \A i \in 1..Nint :
              /\ Mul(FromInt(Nint - 1), Sub(xi[i], xi[1]))
                    = Mul(FromInt(i - 1), Sub(xi[Nint], xi[1]))
              /\ a_[i] = EnvelopeAt(xi[i])
              /\ a[i] = WaveAt(xi[i])
              /\ px[i] = WaveAt(xi[i])
              /\ pz[i] = PzAt(xi[i])
              /\ gamma[i] = GammaAt(xi[i])
              /\ xan[i] = XanAt(xi[i])
              /\ zdrift[i] = DriftAt(xi[i])
              /\ zan[i] = ZanAt(xi[i])
              /\ x[i] = Mul(Neg(TrapSum(px, i - 1)), dxi)
              /\ z[i] = Mul(Neg(TrapSum(pz, i - 1)), dxi)
        /\ xi[1] = Mul(FromInt(4), tau)
        /\ xi[Nint] = Mul(FromInt(-4), tau)

C8_Witness ==
    /\ pc = "done"
    /\ Nint >= 3
    /\ Len(x) = Nint
    /\ IsFinite(x[2]) /\ x[2] # Zero
    /\ Lt(Zero, z[Nint])
    /\ a[1] # a[Nint]

WriteOnceStep ==
    /\ \A nm \in ArrayNames : env[nm] # 0 => env'[nm] = env[nm]
    /\ Len(heap') >= Len(heap)
    /\ \A r \in 1..Len(heap) : heap'[r] = heap[r]

\* C9: every array name is bound by one cell and never rebound, an array
\* object never changes once it exists (so no cell, the plotting cell
\* included, writes into a or px, which are one object), and at the end of
\* the run every name is bound.
C9_WriteOnce ==
    /\ [][WriteOnceStep]_vars
    /\ [](env.px # 0 => env.px = env.a)
    /\ [](pc = "done" => \A nm \in ArrayNames : env[nm] # 0)

C9_Witness ==
    /\ pc = "done"
    /\ env.px = env.a
    /\ env.px # 0
    /\ fig # <<>>
    /\ \A nm \in ArrayNames : Len(Deref(env[nm])) = Nint

\* C10: for tau > 0 and N >= 3 the grid is strictly descending, dxi < 0,
\* and once the integration cell has run 0 <= z[i] <= z[i+1] for every i in
\* 0..N-2.
C10_SignConvention ==
    (Lt(Zero, cfg.tau) /\ cfg.Nint >= 3 /\ Ran("grid")) =>
        /\ \A i \in 1..(Nint - 1) : Lt(xi[i + 1], xi[i])
        /\ Lt(dxi, Zero)
        /\ Ran("numeric") =>
              /\ Len(z) = Nint
              /\ \A i \in 1..(Nint - 1) : Le(Zero, z[i]) /\ Le(z[i], z[i + 1])

C10_Witness ==
    /\ Ran("numeric")
    /\ Lt(Zero, tau)
    /\ Nint >= 3
    /\ Lt(dxi, Zero)
    /\ Lt(z[1], z[Nint])

====
